---- MODULE Spec2Model ----
(***************************************************************************)
(* SAPClient (src/src/sap_client/client.py): the fetch session of one      *)
(* client object against an upstream data source, and Component.run        *)
(* (src/src/component.py) around it.  Rows are numbered 1..rowsN; a stored *)
(* unit is the row list of one response.  Strings (delta pointers,         *)
(* str(value)) are sequences of characters: the digits 0..9, Dot, Letter.  *)
(***************************************************************************)
EXTENDS Integers, Sequences, FiniteSets, TLC

\* ---------------------------------------------------------------- bounds
MaxRows == 3
MaxLimit == 2
MaxBatch == 3
MaxSessions == 2

\* Highest page number a session may request: enough for the round that
\* holds the first page past the data, and one more round.
MaxPage == MaxRows + 1 + 2 * MaxBatch

\* max_delta_pointer of an empty delta_values (Python None)
None == -1

VARIABLES
    rowsN,          \* upstream: number of rows of the resource
    pastEnd,        \* upstream: what a page past the data carries
    pointers,       \* upstream: DELTA_POINTER strings a response may carry
    PAGING,         \* resource metadata: DataSource.PAGING
    DELTA,          \* resource metadata: DataSource.DELTA
    limit,          \* self.limit
    batch_size,     \* self.batch_size
    delta,          \* self.delta (0: falsy, no prior watermark)
    delta_values,   \* self.delta_values
    stop,           \* self.stop
    page,           \* params["page"] of _fetch_paging_offset
    tasks,          \* tasks of the round in _fetch_paging_offset
    pc,             \* position of the caller's fetch
    session,        \* number of fetch invocations so far
    requests,       \* data and metadata requests issued, in order
    stored,         \* units written by _store_results, in order
    sync_type,      \* Component.run: the configured sync type
    destination,    \* self.destination is set (truthy)
    methods,        \* paging_method argument of each fetch invocation
    blocks,         \* KEY_BLOCKS of the $key_blocks response
    block,          \* _fetch_paging_key: index of the next block of the for loop
    error,          \* what made fetch raise ("none": nothing so far)
    state,          \* Component.state: the resource's entry of the state file
    run,            \* position of Component.run
    manifest,       \* the output table and its manifest were written
    state_written,  \* write_state_file was called
    fetches,        \* caller: how often it is going to invoke fetch
    entities,       \* resource metadata: len(DataSource.ENTITIES)
    metadata        \* self.metadata holds the columns of the resource

\* what the configuration, the state file and the upstream fix for a run
config == <<rowsN, pastEnd, pointers, PAGING, DELTA, limit, batch_size, delta,
            sync_type, destination, fetches, entities>>

\* _fetch_paging_key's own variables
keyvars == <<blocks, block>>

\* what Component.run writes
component == <<state, run, manifest, state_written>>

vars == <<config, delta_values, stop, page, tasks, pc, session, requests,
          stored, methods, keyvars, error, component, metadata>>

\* ------------------------------------------------------- string helpers
\* the characters that are no digit, ordered as Python orders them:
\* "." < "0" < ... < "9" < any letter
Dot == -1
Letter == 10

\* a float w.f (one fractional digit) is held in delta_values as the
\* integer FloatBase + 10 * w + f; the integers below FloatBase are ints
FloatBase == 1000000

RECURSIVE Digits(_)
\* the decimal digits of a non-negative int
Digits(n) == IF n < 10 THEN <<n>> ELSE Append(Digits(n \div 10), n % 10)

\* str(value) of a non-negative int or float
Str(v) ==
    IF v < FloatBase THEN Digits(v)
    ELSE Digits((v - FloatBase) \div 10) \o <<Dot, (v - FloatBase) % 10>>

RECURSIVE ParseInt(_)
\* int(delta_pointer) of a digit string
ParseInt(s) ==
    IF Len(s) = 0 THEN 0
    ELSE 10 * ParseInt(SubSeq(s, 1, Len(s) - 1)) + s[Len(s)]

\* int(s) succeeds: s is a non-empty string of digits
IsIntString(s) == Len(s) >= 1 /\ \A i \in 1..Len(s) : s[i] \in 0..9

\* float(s) succeeds: digits with at most one dot, at least one digit
IsFloatString(s) ==
    /\ \A i \in 1..Len(s) : s[i] \in 0..9 \cup {Dot}
    /\ Cardinality({i \in 1..Len(s) : s[i] = Dot}) <= 1
    /\ \E i \in 1..Len(s) : s[i] \in 0..9

\* float(s) of such a string, of at most one fractional digit
ParseFloat(s) ==
    LET dot == IF \E i \in 1..Len(s) : s[i] = Dot
               THEN CHOOSE i \in 1..Len(s) : s[i] = Dot
               ELSE Len(s) + 1
    IN  FloatBase + 10 * ParseInt(SubSeq(s, 1, dot - 1))
            + (IF dot < Len(s) THEN s[dot + 1] ELSE 0)

\* s.ljust(width, "0")
Ljust(s, width) ==
    IF Len(s) >= width THEN s
    ELSE s \o [i \in 1..(width - Len(s)) |-> 0]

RECURSIVE StrLess(_, _)
\* Python's a < b on strings
StrLess(a, b) ==
    IF Len(b) = 0 THEN FALSE
    ELSE IF Len(a) = 0 THEN TRUE
    ELSE IF a[1] # b[1] THEN a[1] < b[1]
    ELSE StrLess(Tail(a), Tail(b))

\* max(len(str(value)) for value in values)
MaxLength(values) ==
    CHOOSE m \in {Len(Str(values[i])) : i \in 1..Len(values)} :
        \A i \in 1..Len(values) : Len(Str(values[i])) <= m

\* index of max(normalized_data) in normalized_data: max() keeps the first
\* maximal element and list.index() finds its first occurrence
FirstMaxIndex(normalized_data) ==
    CHOOSE i \in 1..Len(normalized_data) :
        /\ \A j \in 1..Len(normalized_data) :
               ~StrLess(normalized_data[i], normalized_data[j])
        /\ \A j \in 1..(i - 1) : normalized_data[j] # normalized_data[i]

max_timestamp_or_id(values) ==
    IF values = <<>> THEN None
    ELSE LET max_length == MaxLength(values)
             normalized_data ==
                 [i \in 1..Len(values) |-> Ljust(Str(values[i]), max_length)]
         IN  values[FirstMaxIndex(normalized_data)]

\* the pointers observed in the session, in the order they were appended:
\* delta_values without the prior watermark __init__ put first
Observed == IF delta # 0 THEN Tail(delta_values) ELSE delta_values

\* faulty variant of max_delta_pointer: the prior watermark does not count
max_observed_pointer == max_timestamp_or_id(Observed)

\* the property max_delta_pointer of the client
max_delta_pointer == max_timestamp_or_id(delta_values)

\* ------------------------------------------------------------- upstream
Min(a, b) == IF a <= b THEN a ELSE b

\* number of pages that hold rows
DataPages == (rowsN + limit - 1) \div limit

\* rows (p-1)*limit+1 .. min(p*limit, rowsN) of page p
PageRows(p) ==
    [i \in 1..(Min(p * limit, rowsN) - (p - 1) * limit) |-> (p - 1) * limit + i]

\* r.get("DATA_SOURCE", {}).get("ENTITIES", []) of the response to a page
\* request: entities says whether the list is non-empty, rows is ROWS of
\* its first entity
UpstreamPage(p) ==
    IF p <= DataPages THEN [entities |-> TRUE, rows |-> PageRows(p)]
    ELSE IF pastEnd = "no_entities" THEN [entities |-> FALSE, rows |-> <<>>]
    ELSE IF pastEnd = "late_rows" /\ p = DataPages + 2
         THEN [entities |-> TRUE, rows |-> <<rowsN + 1>>]
    ELSE [entities |-> TRUE, rows |-> <<>>]

\* the response to the single request of _fetch_full
UpstreamFull ==
    IF rowsN = 0 /\ pastEnd = "no_entities"
    THEN [entities |-> FALSE, rows |-> <<>>]
    ELSE [entities |-> TRUE, rows |-> [i \in 1..rowsN |-> i]]

Max(a, b) == IF a >= b THEN a ELSE b

\* contiguous key blocks of the given size over the keys 1..rowsN
BlocksOfSize(size) ==
    [k \in 1..((rowsN + size - 1) \div size) |->
        [KEY_MIN |-> (k - 1) * size + 1, KEY_MAX |-> Min(k * size, rowsN)]]

\* r.get("DATA_SOURCE", {}).get("KEY_BLOCKS") of the $key_blocks response
\* to {"limit": self.limit}: nothing, a partition of the keys of the rows
\* in blocks of limit keys, a partition of the keys 0..rowsN whose first
\* block [0, 0] holds no row, or blocks that overlap
KeyBlockChoices ==
    { <<>>,
      BlocksOfSize(limit),
      <<[KEY_MIN |-> 0, KEY_MAX |-> 0]>> \o BlocksOfSize(limit),
      BlocksOfSize(limit) \o <<[KEY_MIN |-> 1, KEY_MAX |-> rowsN]>> }

\* the response to the request for one key block: the rows whose key lies
\* in [key_min, key_max]
UpstreamBlock(params) ==
    LET lo == Max(params.key_min, 1)
        hi == Min(params.key_max, rowsN)
        rows == [i \in 1..(hi - lo + 1) |-> lo + i - 1]
    IN  IF rows = <<>> /\ pastEnd = "no_entities"
        THEN [entities |-> FALSE, rows |-> <<>>]
        ELSE [entities |-> TRUE, rows |-> rows]

\* ------------------------------------------------------ client helpers
\* faulty variant of set_delta_pointer: float() is tried before int()
set_delta_pointer_float_first(values, delta_pointer) ==
    IF delta_pointer = <<>> THEN values
    ELSE IF IsFloatString(delta_pointer)
    THEN Append(values, ParseFloat(delta_pointer))
    ELSE IF IsIntString(delta_pointer)
    THEN Append(values, ParseInt(delta_pointer))
    ELSE values

\* _set_delta_pointer: a non-empty DELTA_POINTER is parsed with int(), then
\* with float(), and appended
set_delta_pointer(values, delta_pointer) ==
    IF delta_pointer = <<>> THEN values
    ELSE IF IsIntString(delta_pointer)
    THEN Append(values, ParseInt(delta_pointer))
    ELSE IF IsFloatString(delta_pointer)
    THEN Append(values, ParseFloat(delta_pointer))
    ELSE values

\* _set_delta_pointer raises SapClientException: neither int() nor float()
\* accepts the DELTA_POINTER
delta_pointer_rejected(delta_pointer) ==
    /\ delta_pointer # <<>>
    /\ ~IsIntString(delta_pointer)
    /\ ~IsFloatString(delta_pointer)

\* self.stop after _get_and_process has handled response r
stop_after(r, stopped) ==
    IF r.entities /\ r.rows = <<>> THEN TRUE ELSE stopped

\* _get_and_process: the task's return value (<<>> for None) and the
\* client fields it leaves behind
get_and_process(r, delta_pointer) ==
    IF r.entities /\ delta_pointer_rejected(delta_pointer)
    THEN [raised |-> TRUE, result |-> <<>>, delta_values |-> delta_values,
          stop |-> stop]
    ELSE [raised |-> FALSE,
          result |-> IF r.entities THEN r.rows ELSE <<>>,
          delta_values |-> IF r.entities
                           THEN set_delta_pointer(delta_values, delta_pointer)
                           ELSE delta_values,
          stop |-> stop_after(r, stop)]

\* _fetch_full: the page it returns and delta_values after it
fetch_full(r, delta_pointer) ==
    IF r.entities /\ delta_pointer_rejected(delta_pointer)
    THEN [raised |-> TRUE, result |-> <<>>, delta_values |-> delta_values]
    ELSE [raised |-> FALSE,
          result |-> IF r.entities THEN r.rows ELSE <<>>,
          delta_values |-> IF r.entities
                           THEN set_delta_pointer(delta_values, delta_pointer)
                           ELSE delta_values]

\* faulty variant of store_results: the file name carries no uuid, a unit
\* replaces the unit the session stored before
store_results_same_name(units, results) ==
    IF ~destination \/ results = <<>> THEN units
    ELSE IF units # <<>> /\ units[Len(units)].session = session
    THEN [units EXCEPT ![Len(units)] = [session |-> session, rows |-> results]]
    ELSE Append(units, [session |-> session, rows |-> results])

\* _store_results: without destination nothing is stored; otherwise a
\* non-empty result becomes one new unit (a file of its own: the name
\* carries a fresh uuid4)
store_results(units, results) ==
    IF ~destination THEN units
    ELSE IF results # <<>>
    THEN Append(units, [session |-> session, rows |-> results])
    ELSE units

RECURSIVE store_until_empty(_, _)
\* faulty variant of store_all: the results after the first empty one are
\* discarded
store_until_empty(units, results) ==
    IF results = <<>> \/ Head(results) = <<>> THEN units
    ELSE store_until_empty(store_results(units, Head(results)), Tail(results))

RECURSIVE store_all(_, _)
\* "async for page in ...: await self._store_results(page, ...)" over the
\* results of one gather, in task order
store_all(units, results) ==
    IF results = <<>> THEN units
    ELSE store_all(store_results(units, Head(results)), Tail(results))

\* faulty variant of round_pages: params["page"] is incremented before the
\* task is appended
round_pages_incremented_first(first, n) == [k \in 1..n |-> first + k]

\* the pages of one round: "for _ in range(self.batch_size)" appends a task
\* for params["page"] and then increments it
round_pages(first, n) == [k \in 1..n |-> first + k - 1]

\* faulty variant of new_tasks: range(self.batch_size + 1)
new_tasks_one_more(first, n) ==
    [k \in 1..(n + 1) |-> [page |-> first + k - 1,
                           status |-> "inflight", result |-> <<>>]]

\* the task list after the round's tasks were appended
new_tasks(first, n) ==
    [k \in 1..n |-> [page |-> round_pages(first, n)[k],
                     status |-> "inflight", result |-> <<>>]]

\* the request log entries of one round
page_requests(first, n) ==
    [k \in 1..n |-> [session |-> session, kind |-> "page",
                     page |-> round_pages(first, n)[k], delta_pointer |-> 0]]

\* a request that is no page request, without delta_pointer parameter
Request(kind) ==
    [session |-> session, kind |-> kind, page |-> 0, delta_pointer |-> 0]

\* the blocks of one round of _fetch_paging_key: tasks are appended block
\* by block and gathered when there are batch_size of them, or when the
\* blocks are used up
round_blocks(first, n, total) ==
    [k \in 1..Min(n, total - first + 1) |-> first + k - 1]

\* the task list after the tasks of one round of blocks were appended
new_block_tasks(first, n, total) ==
    [k \in 1..Len(round_blocks(first, n, total)) |->
        [page |-> round_blocks(first, n, total)[k],
         status |-> "inflight", result |-> <<>>]]

\* the request log entries of one round of blocks
block_requests(first, n, total) ==
    [k \in 1..Len(round_blocks(first, n, total)) |->
        [session |-> session, kind |-> "block",
         page |-> round_blocks(first, n, total)[k], delta_pointer |-> 0]]

\* ------------------------------------------------------- Component.run
SyncTypes == {"full_sync", "incremental_sync"}

\* self.state.get(resource_alias, {}) as get_state_file returns it: no
\* entry, or an entry with columns and with or without delta_max (None)
StateEntries(Priors) ==
    {[present |-> FALSE, columns |-> FALSE, delta_max |-> None]}
        \cup {[present |-> TRUE, columns |-> TRUE, delta_max |-> d] : d \in Priors}

\* Component._init_delta: the prior watermark handed to SAPClient (0: the
\* falsy None or False)
init_delta(sync_mode, entry) ==
    IF sync_mode = "incremental_sync" /\ entry.delta_max \notin {None, 0}
    THEN entry.delta_max
    ELSE 0

\* ---------------------------------------------------------------- Init
\* SAPClient.__init__ for a given prior watermark, and the upstream it is
\* going to talk to
InitWith(Rows, Limits, Batches, Modes, Pointers, Priors, Fetches, Entities) ==
    /\ fetches \in Fetches
    /\ entities \in Entities
    /\ metadata = FALSE
    /\ rowsN \in Rows
    /\ limit \in Limits
    /\ batch_size \in Batches
    /\ pastEnd \in Modes
    /\ pointers = Pointers
    /\ sync_type \in SyncTypes
    /\ state \in StateEntries(Priors)
    /\ delta = init_delta(sync_type, state)
    /\ destination \in BOOLEAN
    /\ PAGING \in BOOLEAN
    /\ DELTA \in BOOLEAN
    /\ methods = <<>>
    /\ blocks = <<>>
    /\ block = 0
    /\ error = "none"
    /\ run = "fetching"
    /\ manifest = FALSE
    /\ state_written = FALSE
    /\ delta_values = IF delta # 0 THEN <<delta>> ELSE <<>>
    /\ stop = FALSE
    /\ page = 0
    /\ tasks = <<>>
    /\ pc = "idle"
    /\ session = 0
    /\ requests = <<>>
    /\ stored = <<>>

PastEndModes == {"empty_rows", "no_entities", "late_rows"}

Init ==
    InitWith(0..MaxRows, 1..MaxLimit, 1..MaxBatch, PastEndModes,
             {}, {9}, {MaxSessions}, {1})

\* The watermark sessions: a resource of two rows read one row a page,
\* whose responses carry delta pointers of one to five digits
PointerValues == {Str(9), Str(10), Str(99), Str(100), Str(12345)}

InitDelta ==
    InitWith({2}, {1}, {2, 3}, {"empty_rows"}, PointerValues, {None, 9}, {1}, {1})

\* The parsing sessions: the same resource, whose responses carry an
\* integer, a float or a pointer that is neither
ParsedPointers == {Str(10), <<1, Dot, 5>>, <<Letter>>}

InitParse ==
    InitWith({2}, {1}, {2}, {"empty_rows"}, ParsedPointers, {None, 9}, {1}, {1})

\* The scenario of the 2,500 rows read 1000 a page in rounds of 5, on an
\* upstream that answers a page past the data with an empty row list or
\* with no entity
InitScenario ==
    InitWith({2500}, {1000}, {5}, {"empty_rows", "no_entities"}, {}, {None, 9},
             {1}, {1})

\* The runs of Component.run: a resource without rows or with two, whose
\* metadata lists no, one or two entities and whose responses carry the
\* pointer 0 or 10
RunPointers == {Str(0), Str(10)}

InitRun ==
    InitWith({0, 2}, {1}, {2}, {"empty_rows"}, RunPointers, {None, 9}, {1},
             {0, 1, 2})

\* ------------------------------------------------------------- actions
\* the paging_method a caller may pass to fetch
PagingMethods == {"offset", "key", "unsupported"}

\* faulty variant of key_blocks_missing: the check is left out
key_blocks_unchecked(b) == FALSE

\* "if not blocks" of _fetch_paging_key
key_blocks_missing(b) == b = <<>>

\* faulty variant of key_loop_continues: the loop over the blocks ends as
\* the offset loop does, once self.stop is set
key_loop_continues_unless_stopped(b) == b <= Len(blocks) /\ ~stop

\* "for block in blocks" of _fetch_paging_key has a next block b
key_loop_continues(b) == b <= Len(blocks)

\* faulty variant of block_params: key_max is taken as exclusive
block_params_exclusive(b) == [key_min |-> b.KEY_MIN, key_max |-> b.KEY_MAX - 1]

\* the params of the request for one block
block_params(b) == [key_min |-> b.KEY_MIN, key_max |-> b.KEY_MAX]

\* "self.metadata = data_source.metadata" raises IndexError: ENTITIES[0] of
\* an empty list
entity_missing == entities = 0

\* faulty variant of fetches_in_one_request: a resource that supports
\* paging is always paged
fetches_in_one_request_unless_paging == ~PAGING

\* fetch goes to fetch_and_store_full: "if self.delta", or the resource
\* does not support paging
fetches_in_one_request == delta # 0 \/ ~PAGING

\* check_delta_support: it passes unless a prior watermark is set and the
\* resource has no delta function
check_delta_support == ~(delta # 0 /\ ~DELTA)

\* faulty variant of data_sources_endpoint: $delta whenever the
\* configuration asks for an incremental sync
data_sources_endpoint_by_sync_type ==
    IF sync_type = "incremental_sync" THEN "delta" ELSE "full"

\* _get_data_sources_endpoint: the endpoint of _fetch_full's request
data_sources_endpoint == IF delta # 0 THEN "delta" ELSE "full"

\* _get_request_params: the delta_pointer parameter of _fetch_full's
\* request (0: the parameter is not sent)
request_params == IF delta # 0 THEN delta ELSE 0

\* SAPClient.fetch up to its first data request: metadata, delta check and
\* the choice between _fetch_full and _fetch_paging_offset
fetch ==
    /\ pc \in {"idle", "done"}
    /\ run = "fetching"
    /\ session < fetches
    /\ session' = session + 1
    /\ tasks' = <<>>
    /\ \E paging_method \in PagingMethods :
         /\ methods' = Append(methods, paging_method)
         /\ metadata' = IF entity_missing THEN metadata ELSE TRUE
         /\ IF entity_missing
            THEN /\ pc' = "error"
                 /\ error' = "index_error"
                 /\ requests' = Append(requests, [Request("metadata") EXCEPT !.session = session'])
                 /\ UNCHANGED page
            ELSE IF ~check_delta_support
            THEN /\ pc' = "error"
                 /\ error' = "delta_unsupported"
                 /\ requests' = Append(requests, [Request("metadata") EXCEPT !.session = session'])
                 /\ UNCHANGED page
            ELSE IF fetches_in_one_request
            THEN /\ pc' = "full"
                 /\ requests' = requests \o
                        << [Request("metadata") EXCEPT !.session = session'],
                           [Request(data_sources_endpoint)
                               EXCEPT !.session = session',
                                      !.delta_pointer = request_params] >>
                 /\ UNCHANGED <<page, error>>
            ELSE IF paging_method = "offset"
            THEN /\ pc' = "loop"
                 /\ page' = 1
                 /\ requests' = Append(requests, [Request("metadata") EXCEPT !.session = session'])
                 /\ UNCHANGED error
            ELSE IF paging_method = "key"
            THEN /\ pc' = "key_blocks"
                 /\ requests' = requests \o
                        << [Request("metadata") EXCEPT !.session = session'],
                           [Request("key_blocks") EXCEPT !.session = session'] >>
                 /\ UNCHANGED <<page, error>>
            ELSE /\ pc' = "error"
                 /\ error' = "paging_method"
                 /\ requests' = Append(requests, [Request("metadata") EXCEPT !.session = session'])
                 /\ UNCHANGED page
    /\ blocks' = <<>>
    /\ block' = 0
    /\ UNCHANGED <<config, delta_values, stop, stored, component>>

\* _get_resource_metadata: the metadata request fails, fetch raises
MetadataFails ==
    /\ pc \in {"idle", "done"}
    /\ run = "fetching"
    /\ session < fetches
    /\ session' = session + 1
    /\ \E paging_method \in PagingMethods : methods' = Append(methods, paging_method)
    /\ tasks' = <<>>
    /\ requests' = Append(requests, [Request("metadata") EXCEPT !.session = session'])
    /\ pc' = "error"
    /\ error' = "metadata"
    /\ blocks' = <<>>
    /\ block' = 0
    /\ UNCHANGED <<config, delta_values, stop, page, stored, component, metadata>>

\* fetch_and_store_full: the response to _fetch_full's request arrives
FullResponds ==
    /\ pc = "full"
    /\ \E dp \in pointers \cup {<<>>} :
         LET out == fetch_full(UpstreamFull, dp)
         IN  /\ delta_values' = out.delta_values
             /\ IF out.raised
                THEN pc' = "error" /\ error' = "invalid_pointer"
                        /\ UNCHANGED stored
                ELSE pc' = "done" /\ UNCHANGED error
                        /\ stored' = store_results(stored, out.result)
    /\ UNCHANGED <<config, stop, page, tasks, session, requests, methods,
                   keyvars, component, metadata>>

\* _fetch raises SapClientException in _fetch_full
FullFails ==
    /\ pc = "full"
    /\ pc' = "error"
    /\ error' = "fetch"
    /\ UNCHANGED <<config, delta_values, stop, page, tasks, session, requests,
                   stored, methods, keyvars, component, metadata>>

\* _fetch_paging_key: the $key_blocks response arrives; without blocks the
\* generator raises, otherwise the for loop over the blocks starts
KeyBlocksRespond ==
    /\ pc = "key_blocks"
    /\ \E b \in KeyBlockChoices :
         /\ blocks' = b
         /\ IF key_blocks_missing(b)
            THEN pc' = "error" /\ error' = "key_blocks" /\ UNCHANGED block
            ELSE pc' = "loop" /\ block' = 1 /\ UNCHANGED error
    /\ UNCHANGED <<config, delta_values, stop, page, tasks, session, requests,
                   stored, methods, component, metadata>>

\* _fetch raises SapClientException for the $key_blocks request
KeyBlocksFails ==
    /\ pc = "key_blocks"
    /\ pc' = "error"
    /\ error' = "fetch"
    /\ UNCHANGED <<config, delta_values, stop, page, tasks, session, requests,
                   stored, methods, keyvars, component, metadata>>

\* _fetch_paging_key, "for block in blocks": the tasks of the next round of
\* blocks are created and handed to asyncio.gather
IssueKeyRound ==
    /\ pc = "loop"
    /\ methods[session] = "key"
    /\ key_loop_continues(block)
    /\ tasks' = tasks \o new_block_tasks(block, batch_size, Len(blocks))
    /\ requests' = requests \o block_requests(block, batch_size, Len(blocks))
    /\ block' = block + Len(round_blocks(block, batch_size, Len(blocks)))
    /\ pc' = "gather"
    /\ UNCHANGED <<config, delta_values, stop, page, session, stored, methods,
                   blocks, error, component, metadata>>

\* _fetch_paging_key: the blocks are used up, the generator ends
ExitKeyLoop ==
    /\ pc = "loop"
    /\ methods[session] = "key"
    /\ ~key_loop_continues(block)
    /\ pc' = "done"
    /\ UNCHANGED <<config, delta_values, stop, page, tasks, session, requests,
                   stored, methods, keyvars, error, component, metadata>>

\* _fetch_paging_offset, "while not self.stop": one round of batch_size
\* tasks is created and handed to asyncio.gather
IssueRound ==
    /\ pc = "loop"
    /\ methods[session] = "offset"
    /\ ~stop
    /\ page + batch_size - 1 <= MaxPage
    /\ tasks' = tasks \o new_tasks(page, batch_size)
    /\ requests' = requests \o page_requests(page, batch_size)
    /\ page' = page + batch_size
    /\ pc' = "gather"
    /\ UNCHANGED <<config, delta_values, stop, session, stored, methods,
                   keyvars, error, component, metadata>>

\* "while not self.stop" is false: the generator ends, fetch returns
ExitLoop ==
    /\ pc = "loop"
    /\ methods[session] = "offset"
    /\ stop
    /\ pc' = "done"
    /\ UNCHANGED <<config, delta_values, stop, page, tasks, session, requests,
                   stored, methods, keyvars, error, component, metadata>>

\* the upstream's response to the request of a task: a page of the offset
\* strategy, a block of the key-block strategy
task_response(task) ==
    IF methods[session] = "key"
    THEN UpstreamBlock(block_params(blocks[task.page]))
    ELSE UpstreamPage(task.page)

\* one task's _get_and_process runs to its end on the response to its
\* request, or _set_delta_pointer raises in it
Respond(i) ==
    /\ tasks[i].status = "inflight"
    /\ \E dp \in pointers \cup {<<>>} :
         LET out == get_and_process(task_response(tasks[i]), dp)
         IN  /\ tasks' = [tasks EXCEPT ![i] =
                             [@ EXCEPT !.status = IF out.raised
                                                  THEN "invalid_pointer"
                                                  ELSE "done",
                                       !.result = out.result]]
             /\ delta_values' = out.delta_values
             /\ stop' = out.stop
    /\ UNCHANGED <<config, page, pc, session, requests, stored, methods,
                   keyvars, error, component, metadata>>

\* one task's _fetch raises SapClientException
RequestFails(i) ==
    /\ tasks[i].status = "inflight"
    /\ tasks' = [tasks EXCEPT ![i] = [@ EXCEPT !.status = "failed"]]
    /\ UNCHANGED <<config, delta_values, stop, page, pc, session, requests,
                   stored, methods, keyvars, error, component, metadata>>

\* asyncio.gather returns the results of the round: each is yielded and
\* stored, then tasks.clear()
GatherReturns ==
    /\ pc = "gather"
    /\ \A i \in 1..Len(tasks) : tasks[i].status = "done"
    /\ stored' = store_all(stored, [i \in 1..Len(tasks) |-> tasks[i].result])
    /\ tasks' = <<>>
    /\ pc' = "loop"
    /\ UNCHANGED <<config, delta_values, stop, page, session, requests,
                   methods, keyvars, error, component, metadata>>

\* asyncio.gather (return_exceptions=False) propagates the exception of a
\* task to the awaiting generator at once; it travels through fetch_with_paging
\* and fetch to the caller.  The other tasks of the round keep running.
GatherRaises ==
    /\ pc = "gather"
    /\ \E i \in 1..Len(tasks) :
         /\ tasks[i].status \in {"failed", "invalid_pointer"}
         /\ error' = IF tasks[i].status = "failed" THEN "fetch"
                     ELSE "invalid_pointer"
    /\ pc' = "error"
    /\ UNCHANGED <<config, delta_values, stop, page, tasks, session, requests,
                   stored, methods, keyvars, component, metadata>>

\* asyncio.run(client.fetch(...)) ends with an exception: the event loop is
\* closed and every task still pending is cancelled
CancelAllTasks ==
    /\ pc = "error"
    /\ \E i \in 1..Len(tasks) : tasks[i].status = "inflight"
    /\ tasks' = [i \in 1..Len(tasks) |->
                    IF tasks[i].status = "inflight"
                    THEN [tasks[i] EXCEPT !.status = "cancelled"]
                    ELSE tasks[i]]
    /\ UNCHANGED <<config, delta_values, stop, page, pc, session, requests,
                   stored, methods, keyvars, error, component, metadata>>

\* faulty variant of fetch_returned: the exception of fetch is swallowed
fetch_ended == pc \in {"done", "error"}

\* "asyncio.run(client.fetch(...))" of Component.run returned, the except
\* clause was not entered
fetch_returned == pc = "done"

\* "if max_delta_pointer": None, 0 and 0.0 are falsy
truthy(pointer) == pointer # None /\ pointer # 0 /\ pointer # FloatBase

\* self.state[resource_alias] after "if files: ...": setdefault creates the
\* entry and the column list is set when a file was found
entry_after_files(entry, files) ==
    IF files THEN [entry EXCEPT !.present = TRUE, !.columns = TRUE] ELSE entry

\* Component.run after its one fetch returned: the table and its manifest
\* are written if temp_dir holds files, delta_max is set if there is a
\* watermark (a KeyError if the state has no entry for the resource), the
\* state file is written
RunFinishes ==
    /\ run = "fetching"
    /\ session = 1
    /\ fetch_returned
    /\ LET files == stored # <<>>
           entry == entry_after_files(state, files)
       IN  /\ manifest' = files
           /\ IF truthy(max_delta_pointer) /\ ~entry.present
              THEN /\ run' = "crashed"
                   /\ state' = entry
                   /\ UNCHANGED state_written
              ELSE /\ run' = "finished"
                   /\ state' = IF truthy(max_delta_pointer)
                               THEN [entry EXCEPT !.delta_max = max_delta_pointer]
                               ELSE entry
                   /\ state_written' = TRUE
    /\ UNCHANGED <<config, delta_values, stop, page, tasks, pc, session,
                   requests, stored, methods, keyvars, error, metadata>>

\* Component.run, asyncio.run raises after it has cancelled what was
\* pending: "except SapClientException" raises UserException and run ends;
\* an IndexError is not caught and run ends with it
RunFails ==
    /\ run = "fetching"
    /\ session = 1
    /\ pc = "error"
    /\ \A i \in 1..Len(tasks) : tasks[i].status # "inflight"
    /\ run' = IF error = "index_error" THEN "crashed" ELSE "failed"
    /\ UNCHANGED <<config, delta_values, stop, page, tasks, pc, session,
                   requests, stored, methods, keyvars, error, state, manifest,
                   state_written, metadata>>

Next ==
    \/ fetch
    \/ MetadataFails
    \/ FullResponds
    \/ FullFails
    \/ KeyBlocksRespond
    \/ KeyBlocksFails
    \/ IssueKeyRound
    \/ ExitKeyLoop
    \/ IssueRound
    \/ ExitLoop
    \/ \E i \in 1..Len(tasks) : Respond(i)
    \/ \E i \in 1..Len(tasks) : RequestFails(i)
    \/ GatherReturns
    \/ GatherRaises
    \/ CancelAllTasks
    \/ RunFinishes
    \/ RunFails

Spec == Init /\ [][Next]_vars

DeltaSpec == InitDelta /\ [][Next]_vars

ParseSpec == InitParse /\ [][Next]_vars

ScenarioSpec == InitScenario /\ [][Next]_vars

RunSpec == InitRun /\ [][Next]_vars

\* ------------------------------------------------- vocabulary of claims
\* the page requests of session s, in the order they were issued
PagesRequested(s) ==
    {requests[k].page : k \in {j \in 1..Len(requests) :
                                 requests[j].session = s /\ requests[j].kind = "page"}}

\* the round (0, 1, ...) of a session in which page p is requested
RoundOf(p) == (p - 1) \div batch_size

\* the first page past the data
FirstPastPage == DataPages + 1

\* how often row is found in the units stored by session s
Occurrences(s, row) ==
    Cardinality(UNION {{<<u, k>> : k \in {j \in 1..Len(stored[u].rows) :
                                              stored[u].rows[j] = row}} :
                          u \in {v \in 1..Len(stored) : stored[v].session = s}})

\* every row found in the units stored by session s
RowsStored(s) ==
    UNION {{stored[u].rows[k] : k \in 1..Len(stored[u].rows)} :
              u \in {v \in 1..Len(stored) : stored[v].session = s}}

\* session 1 is an offset-paging session of a client without prior watermark
OffsetSession ==
    /\ PAGING /\ delta = 0 /\ destination
    /\ Len(methods) >= 1 /\ methods[1] = "offset"

\* C1: on an upstream that answers pages past the data with an empty row
\* list, a completed offset-paging session of a fresh client has stored
\* every row 1..rowsN exactly once, and nothing else
C1_OffsetStoresEachRowOnce ==
    (OffsetSession /\ pastEnd = "empty_rows" /\ session = 1 /\ pc = "done")
        => /\ RowsStored(1) = 1..rowsN
           /\ \A row \in 1..rowsN : Occurrences(1, row) = 1

\* C1 witness: three rows, two requests a round, two rows a page: pages 1
\* and 2 were stored and the session is over
C1_Witness ==
    /\ OffsetSession /\ pastEnd = "empty_rows" /\ session = 1 /\ pc = "done"
    /\ rowsN = 3 /\ limit = 2 /\ batch_size = 2
    /\ Len(stored) = 2

\* delta_values had its observed pointers been appended in the order f
Reordered(f) ==
    (IF delta # 0 THEN <<delta>> ELSE <<>>)
        \o [i \in 1..Len(Observed) |-> Observed[f[i]]]

\* C2: within a session max_delta_pointer is the same for every order in
\* which the pointers observed so far could have been appended to
\* delta_values
C2_MaxIsOrderIndependent ==
    session = 1 => \A f \in Permutations(1..Len(Observed)) :
        max_timestamp_or_id(Reordered(f)) = max_delta_pointer

\* C3: delta_values holds integers only, and max_delta_pointer is their
\* numeric maximum: no accumulated value is greater than it
C3_MaxIsNumericMaximum ==
    \A i \in 1..Len(delta_values) : delta_values[i] <= max_delta_pointer

\* the values of a sequence
Range(seq) == {seq[i] : i \in 1..Len(seq)}

\* C4: a session without prior watermark that observed exactly the pointers
\* "100", "99" and "12345", in whatever order, ends with watermark 12345
C4_ScenarioYields12345 ==
    (delta = 0 /\ pc = "done" /\ Len(delta_values) = 3
       /\ Range(delta_values) = {100, 99, 12345})
        => max_delta_pointer = 12345

\* C5: every step that appends a pointer to delta_values leaves
\* max_delta_pointer at least as large as it was, and at least as large as
\* the prior watermark the client was constructed with
C5_WatermarkOnlyGrows ==
    [][Len(delta_values') > Len(delta_values)
          => /\ max_delta_pointer' >= max_delta_pointer
             /\ max_delta_pointer' >= delta]_vars

\* the response to page p carries no rows
ZeroRows(p) == UpstreamPage(p).rows = <<>>

\* the page a stored row came from: rows 1..rowsN lie on the data pages, the
\* late row rowsN + 1 on the second page past the data
RowPage(row) ==
    IF row <= rowsN THEN (row - 1) \div limit + 1 ELSE FirstPastPage + 1

\* C6: in an offset session no page is requested in a round after a round
\* in which a request returned zero rows; and when the loop is about to
\* decide on the next round and no request so far returned zero rows, the
\* loop goes on (stop is not set)
C6_StopsAfterZeroRowResponse ==
    (OffsetSession /\ session = 1)
        => /\ \A p \in PagesRequested(1) : \A q \in PagesRequested(1) :
                 ZeroRows(p) => RoundOf(q) <= RoundOf(p)
           /\ (pc = "loop" /\ \A p \in PagesRequested(1) : ~ZeroRows(p))
                 => ~stop

\* C7 as claimed: no stored row comes from a page beyond the first empty
\* page, whatever the upstream returned for that page
C7_RowsBeyondEmptyPageNeverStored ==
    (OffsetSession /\ session = 1)
        => \A row \in RowsStored(1) : RowPage(row) <= FirstPastPage

\* C7 amended: with the first empty page being an entity with an empty row
\* list, no page of a round after that page's round is requested, and when
\* the session is over the stored rows are the rows of all requested pages,
\* those of pages beyond the first empty page of its round included
C7_RowsOfTheRoundAreStored ==
    (OffsetSession /\ session = 1 /\ pastEnd # "no_entities")
        => /\ \A p \in PagesRequested(1) : RoundOf(p) <= RoundOf(FirstPastPage)
           /\ pc = "done"
                 => RowsStored(1) =
                        UNION {Range(UpstreamPage(p).rows) : p \in PagesRequested(1)}

\* C7 witness: a finished session that stored the late row the upstream
\* returned for the page after the first empty page
C7_Witness ==
    /\ OffsetSession /\ session = 1 /\ pc = "done"
    /\ pastEnd = "late_rows"
    /\ FirstPastPage \in PagesRequested(1)
    /\ (rowsN + 1) \in RowsStored(1)

\* C8: an offset session against an upstream whose responses past the data
\* carry no rows (an empty row list, or no entity) is finite: params["page"]
\* never passes the end of the round that holds the first page past the data
C8_OffsetSessionIsFinite ==
    (OffsetSession /\ session = 1 /\ pastEnd \in {"empty_rows", "no_entities"})
        => page <= (RoundOf(FirstPastPage) + 1) * batch_size + 1

\* C9: a second fetch on the same client, after a completed offset session,
\* has requested page 1 again and stored the whole dataset when it is over
C9_SecondFetchRerunsFromStart ==
    (OffsetSession /\ pastEnd = "empty_rows" /\ session = 2 /\ pc = "done")
        => /\ 1 \in PagesRequested(2)
           /\ RowsStored(2) = 1..rowsN

\* C10: when the error of a failed request has reached the caller of fetch,
\* every request of that round has resolved: none is still in flight and
\* none was cancelled
C10_ErrorAfterRoundResolved ==
    pc = "error"
        => \A i \in 1..Len(tasks) : tasks[i].status \in {"done", "failed"}

\* the requests of session s that are not its metadata request
DataRequests(s) ==
    {k \in 1..Len(requests) :
        requests[k].session = s /\ requests[k].kind # "metadata"}

\* C11: once fetch was invoked for an incremental sync of a resource whose
\* metadata says DELTA = false (and the metadata request itself succeeded),
\* the session has failed with the unsupported-delta error and has issued
\* no data request, with or without a prior watermark in the state
C11_IncrementalOnNonDeltaFails ==
    (sync_type = "incremental_sync" /\ ~DELTA /\ session = 1
       /\ error # "metadata")
        => /\ pc = "error"
           /\ error = "delta_unsupported"
           /\ DataRequests(1) = {}

\* C20: an incremental sync without prior watermark never fails for lack
\* of it, sends neither a request to $delta nor a delta_pointer parameter,
\* and reads the plain resource path: by paging when the resource supports
\* paging, in one request otherwise
C20_NoWatermarkDegradesToFullSync ==
    (sync_type = "incremental_sync" /\ delta = 0)
        => /\ error # "delta_unsupported"
           /\ \A k \in 1..Len(requests) :
                 /\ requests[k].kind # "delta"
                 /\ requests[k].delta_pointer = 0
                 /\ PAGING => requests[k].kind # "full"
                 /\ ~PAGING => requests[k].kind \in {"metadata", "full"}
           /\ (session >= 1 /\ error = "none")
                 => DataRequests(1) # {} \/ pc = "loop"

\* C20 witness: an incremental sync without prior watermark of a resource
\* without paging has ended after its one request to the plain path
C20_Witness ==
    /\ sync_type = "incremental_sync" /\ delta = 0 /\ ~PAGING
    /\ session = 1 /\ pc = "done"
    /\ stored # <<>>

\* C12: a step never leaves a failed fetch with the table manifest written,
\* the state file written or the state changed, and the run can only end
\* in error; the manifest is written only when fetch has returned
\* without error
C12_FailedFetchWritesNothing ==
    [][ /\ error' # "none"
            => /\ ~manifest'
               /\ ~state_written'
               /\ state' = state
               /\ run' \in {"fetching", "failed", "crashed"}
        /\ manifest' => (pc' = "done" /\ error' = "none") ]_vars

\* a key-block run that failed in a later round, after a round was stored
C12_Witness ==
    /\ run = "failed"
    /\ error = "fetch"
    /\ methods = <<"key">>
    /\ stored # <<>>
    /\ ~manifest /\ ~state_written

\* what int() and float() make of the pointers the upstream may send
ParsedValues ==
    {ParseInt(p) : p \in {q \in pointers : IsIntString(q)}}
        \cup {ParseFloat(p) :
                  p \in {q \in pointers : ~IsIntString(q) /\ IsFloatString(q)}}

\* the tasks whose _set_delta_pointer raised
Rejected == {i \in 1..Len(tasks) : tasks[i].status = "invalid_pointer"}

\* C13: every observed watermark is int() of a pointer that int() accepts
\* or float() of one that only float() accepts; once a pointer was
\* rejected the session is failing or has failed, no request of a later
\* round exists, the error is the invalid-pointer error unless a request
\* of the round failed as well, and the state file is not written
C13_RejectedPointerFailsSession ==
    /\ \A i \in 1..Len(Observed) : Observed[i] \in ParsedValues
    /\ Rejected # {}
          => /\ pc \in {"gather", "error"}
             /\ \A k \in DataRequests(session) :
                   \E j \in 1..Len(tasks) : tasks[j].page = requests[k].page
                      \/ RoundOf(requests[k].page) < RoundOf(tasks[j].page)
             /\ (pc = "error"
                   /\ \A j \in 1..Len(tasks) : tasks[j].status # "failed")
                  => error = "invalid_pointer"
    /\ error = "invalid_pointer"
          => /\ pc = "error"
             /\ ~state_written
             /\ run \in {"fetching", "failed"}

\* a paging run that parsed an int and a float and then failed on a pointer
\* that is neither
C13_Witness ==
    /\ run = "failed"
    /\ error = "invalid_pointer"
    /\ Rejected # {}
    /\ \E i, j \in 1..Len(delta_values) :
          delta_values[i] = 10 /\ delta_values[j] = FloatBase + 15

RECURSIVE SumRows(_, _)
\* the number of rows in the units that session s stored
SumRows(units, s) ==
    IF units = <<>> THEN 0
    ELSE (IF Head(units).session = s THEN Len(Head(units).rows) ELSE 0)
             + SumRows(Tail(units), s)

\* C14: in the session of the scenario no page past the first round (pages
\* 1..5) is ever requested, and once the session is over exactly the
\* pages 1, 2 and 3 are stored, 2,500 rows in all
C14_ScenarioStoresThreeBatches ==
    (rowsN = 2500 /\ limit = 1000 /\ batch_size = 5 /\ OffsetSession
        /\ session = 1)
        => /\ PagesRequested(1) \subseteq 1..5
           /\ pc = "done"
                 => /\ Len(stored) = 3
                    /\ \A k \in 1..3 : stored[k].rows = PageRows(k)
                    /\ SumRows(stored, 1) = 2500

\* the tasks whose request is in flight
InFlight == {i \in 1..Len(tasks) : tasks[i].status = "inflight"}

\* C15: never more than batch_size requests are in flight, and a request
\* is issued only when no request is in flight
C15_RoundsAreSequential ==
    /\ [](Cardinality(InFlight) <= batch_size)
    /\ [][Len(requests') > Len(requests) => InFlight = {}]_vars

\* the second round of an offset session, all of its requests in flight
C15_Witness ==
    /\ pc = "gather"
    /\ methods[session] = "offset"
    /\ batch_size >= 2
    /\ Cardinality(InFlight) = batch_size
    /\ RoundOf(tasks[1].page) = 1

\* the requests of session s for block b
BlockRequests(s, b) ==
    {k \in 1..Len(requests) :
        requests[k].session = s /\ requests[k].kind = "block"
            /\ requests[k].page = b}

\* C16: in a key-block session no block is requested twice, the blocks are
\* requested in order, and when the session is over every block was
\* requested once
C16_EveryBlockFetchedOnce ==
    (session >= 1 /\ methods[session] = "key")
        => \A b \in 1..Len(blocks) :
              /\ Cardinality(BlockRequests(session, b)) <= 1
              /\ BlockRequests(session, b) # {} <=> b < block
              /\ pc = "done" => Cardinality(BlockRequests(session, b)) = 1

\* a finished key-block session whose first block held no row (self.stop
\* was set) and whose last round was shorter than batch_size
C16_Witness ==
    /\ session >= 1 /\ methods[session] = "key" /\ pc = "done"
    /\ stop
    /\ blocks[1] = [KEY_MIN |-> 0, KEY_MAX |-> 0]
    /\ Len(blocks) > batch_size /\ Len(blocks) % batch_size # 0
    /\ SumRows(stored, session) = rowsN /\ rowsN > 0

\* C17: a session that failed for want of key blocks was a key-block
\* session that requested no block and no page, ran no task and stored
\* nothing; and a key-block session whose $key_blocks response held no
\* block has failed so
C17_NoBlocksFailsWithoutFallback ==
    /\ error = "key_blocks"
          => /\ pc = "error"
             /\ methods[session] = "key"
             /\ \A k \in DataRequests(session) : requests[k].kind = "key_blocks"
             /\ tasks = <<>>
             /\ SumRows(stored, session) = 0
    /\ (session >= 1 /\ methods[session] = "key" /\ PAGING /\ delta = 0
          /\ pc # "key_blocks" /\ blocks = <<>>
          /\ error \notin {"metadata", "fetch"})
          => error = "key_blocks"

\* a run over a resource with rows that failed for want of key blocks
C17_Witness ==
    /\ error = "key_blocks"
    /\ rowsN > 0
    /\ run = "failed"

\* every key of a row lies in exactly one block
IsPartition(b) ==
    \A key \in 1..rowsN :
        Cardinality({i \in 1..Len(b) :
                        b[i].KEY_MIN <= key /\ key <= b[i].KEY_MAX}) = 1

\* C18: on a resource whose rows are all on its data pages, a finished
\* first session stores rowsN rows, be it an offset session or a key-block
\* session over blocks that partition the keys; and a key-block session
\* that follows an offset session stores as many rows as that one
C18_KeyAndOffsetStoreSameTotal ==
    (PAGING /\ delta = 0 /\ destination /\ pastEnd # "late_rows"
        /\ pc = "done" /\ session >= 1)
        => /\ (session = 1 /\ methods[1] \in {"offset", "key"}
                 /\ (methods[1] = "key" => IsPartition(blocks)))
                => SumRows(stored, 1) = rowsN
           /\ (session = 2 /\ methods = <<"offset", "key">>
                 /\ IsPartition(blocks))
                => SumRows(stored, 2) = SumRows(stored, 1)

\* an offset session and a key-block session over several blocks, both
\* finished
C18_Witness ==
    /\ PAGING /\ delta = 0 /\ destination /\ pastEnd = "empty_rows"
    /\ session = 2 /\ methods = <<"offset", "key">> /\ pc = "done"
    /\ IsPartition(blocks) /\ Len(blocks) >= 2
    /\ rowsN >= 2
    /\ SumRows(stored, 2) = rowsN

\* the units that storing the results makes, one for each non-empty result
UnitsOf(results) ==
    LET kept == SelectSeq(results, LAMBDA r : r # <<>>)
    IN  [k \in 1..Len(kept) |-> [session |-> session, rows |-> kept[k]]]

\* C19: a step only appends to the stored units; the step that stores the
\* results of a round appends one unit for each non-empty result, in
\* order, and without destination it stores nothing and raises nothing
C19_StoreAppendsOneUnitPerBatch ==
    [][ /\ Len(stored') >= Len(stored)
        /\ SubSeq(stored', 1, Len(stored)) = stored
        /\ (pc = "gather" /\ pc' = "loop")
              => /\ stored' = IF destination
                              THEN stored \o UnitsOf([i \in 1..Len(tasks) |->
                                                        tasks[i].result])
                              ELSE stored
                 /\ error' = error
        /\ (pc = "full" /\ pc' = "done")
              => /\ Len(stored') - Len(stored) =
                        IF destination /\ rowsN > 0 THEN 1 ELSE 0
                 /\ error' = error
        /\ ~destination => stored' = <<>> ]_vars

\* three units stored by the one round whose requests brought them
C19_Witness ==
    /\ pc = "loop"
    /\ session = 1 /\ methods[1] = "offset"
    /\ page = batch_size + 1
    /\ Len(stored) = 3
    /\ \A u \in 1..3 : stored[u].rows = PageRows(u)

\* C21: once fetch was invoked for a resource whose metadata lists no
\* entity or more than one (and the metadata request itself succeeded),
\* fetch has failed, has issued no data request and has not set
\* self.metadata
C21_EntityCountOtherThanOneFails ==
    (entities # 1 /\ session >= 1 /\ error # "metadata")
        => /\ pc = "error"
           /\ DataRequests(session) = {}
           /\ ~metadata

\* C22: on a client with a prior watermark and a resource that supports
\* delta, every session whose metadata request succeeded has issued one
\* data request and no other: to $delta, with delta_pointer equal to the
\* prior watermark; no page, block or $key_blocks request and no task
\* exists, whatever PAGING and the paging method are
C22_PriorWatermarkMakesOneDeltaRequest ==
    (delta # 0 /\ DELTA)
        => /\ tasks = <<>>
           /\ \A s \in 1..session :
                 (s < session \/ error # "metadata")
                     => \E k \in DataRequests(s) :
                           /\ DataRequests(s) = {k}
                           /\ requests[k].kind = "delta"
                           /\ requests[k].delta_pointer = delta

\* a finished session with prior watermark on a resource that supports
\* paging, invoked with the key-block method
C22_Witness ==
    /\ delta # 0 /\ DELTA /\ PAGING
    /\ session = 1 /\ methods[1] = "key"
    /\ pc = "done"
    /\ stored # <<>>

\* C23 as claimed: after a session in which no pointer was observed,
\* max_delta_pointer is None, with or without prior watermark
C23_NoPointerMeansNoWatermark ==
    (pc = "done" /\ Observed = <<>>) => max_delta_pointer = None

\* C23: after a session in which no pointer was observed,
\* max_delta_pointer is the prior watermark the client was created with,
\* and None when it was created without one
C23_WatermarkWithoutPointerIsThePrior ==
    (pc = "done" /\ Observed = <<>>)
        => max_delta_pointer = IF delta # 0 THEN delta ELSE None

\* a finished session with prior watermark over a resource without rows,
\* whose response carried no pointer
C23_Witness ==
    /\ pc = "done"
    /\ session = 1
    /\ delta # 0
    /\ rowsN = 0
    /\ Observed = <<>>
    /\ max_delta_pointer = delta

\* C24: once Component.run has ended after a fetch that returned without
\* error and left a maximum watermark, the run has finished, the state
\* file is written and the entry of the resource holds that watermark as
\* delta_max
C24_DefinedWatermarkIsPersisted ==
    (run # "fetching" /\ error = "none" /\ max_delta_pointer # None)
        => /\ run = "finished"
           /\ state_written
           /\ state.present
           /\ state.delta_max = max_delta_pointer

====
